---- MODULE Spec2Model ----
(***************************************************************************)
(* Model of the fraud-scoring command line pipeline:                       *)
(*   src/src/fit_preprocessor.py  (offline fit of the preprocessor)        *)
(*   src/src/data_handler.py      (load, preprocess, predict, main)        *)
(*                                                                         *)
(* Floats are modelled as exact rationals [n, d] in lowest terms; the      *)
(* training tables are chosen so that every mean and standard deviation    *)
(* is an integer.                                                          *)
(***************************************************************************)
EXTENDS Integers, Sequences, FiniteSets, TLC

\* ---------------------------------------------------------------- bounds

\* How many of the numerical / categorical schema features (a prefix of the
\* source's lists) the model carries.
NumNumeric == 2
NumCategorical == 2
\* How many invocations of the command one deployment behaviour holds.
MaxInvocations == 2

\* ---------------------------------------------------------------- schema

ALL_CATEGORICAL_FEATURES ==
    <<"payment_type", "employment_status", "housing_status", "source", "device_os">>

ALL_NUMERICAL_FEATURES ==
    <<"income", "name_email_similarity", "prev_address_months_count",
      "current_address_months_count", "customer_age", "days_since_request",
      "intended_balcon_amount", "zip_count_4w", "velocity_6h", "velocity_24h",
      "velocity_4w", "bank_branch_count_8w", "date_of_birth_distinct_emails_4w",
      "credit_risk_score", "email_is_free", "phone_home_valid",
      "phone_mobile_valid", "bank_months_count", "has_other_cards",
      "proposed_credit_limit", "foreign_request", "session_length_in_minutes",
      "device_distinct_emails_8w", "device_fraud_count", "month">>

CATEGORICAL_FEATURES == SubSeq(ALL_CATEGORICAL_FEATURES, 1, NumCategorical)
NUMERICAL_FEATURES == SubSeq(ALL_NUMERICAL_FEATURES, 1, NumNumeric)

\* NUMERICAL_FEATURES + CATEGORICAL_FEATURES, the column order of the frame.
FeatureOrder == NUMERICAL_FEATURES \o CATEGORICAL_FEATURES

SeqToSet(s) == {s[i] : i \in DOMAIN s}

NumSet == SeqToSet(NUMERICAL_FEATURES)
CatSet == SeqToSet(CATEGORICAL_FEATURES)

\* Keys an input object may carry that are no schema feature.
ExtraKeys == {"note"}

\* ---------------------------------------------------------------- values

\* A JSON / table cell: a number, a string or null (None / NaN).
Num(v) == [t |-> "num", v |-> v, s |-> ""]
Str(s) == [t |-> "str", v |-> 0, s |-> s]
Null == [t |-> "null", v |-> 0, s |-> ""]

\* Strings in the order Python / numpy sort them.
StringOrder == <<"AA", "AB", "AC", "ZZ", "abc">>

RECURSIVE GCD(_, _)
GCD(a, b) == IF b = 0 THEN a ELSE GCD(b, a % b)

Abs(x) == IF x < 0 THEN -x ELSE x

\* The float n / d (d > 0), in lowest terms.
Rat(n, d) ==
    LET g == GCD(Abs(n), d)
    IN  [n |-> n \div g, d |-> d \div g]

RECURSIVE SumSeq(_)
SumSeq(s) == IF s = <<>> THEN 0 ELSE Head(s) + SumSeq(Tail(s))

RECURSIVE Flatten(_)
Flatten(ss) == IF ss = <<>> THEN <<>> ELSE Head(ss) \o Flatten(Tail(ss))

ISqrt(n) == CHOOSE k \in 0..n : k * k <= n /\ (k + 1) * (k + 1) > n

\* ------------------------------------------------- fit_preprocessor.py

\* One row of Base.csv: the label, the numerical columns (n, n + 1, ... in
\* schema order) and the categorical columns (c1 for the first, c2 for the
\* others).
Row(n, c1, c2) ==
    [f \in NumSet \cup CatSet \cup {"fraud_bool"} |->
        IF f = "fraud_bool" THEN Num(0)
        ELSE IF f \in NumSet
             THEN Num(n + (CHOOSE i \in DOMAIN NUMERICAL_FEATURES :
                               NUMERICAL_FEATURES[i] = f) - 1)
             ELSE IF f = CATEGORICAL_FEATURES[1] THEN Str(c1) ELSE Str(c2)]

\* A row of the file with no value in any column.
EmptyRow == [f \in NumSet \cup CatSet \cup {"fraud_bool"} |-> Null]

\* The training tables the fit step may find in data/raw/Base.csv.
TrainingTables ==
    { <<Row(4, "AB", "AA"), Row(6, "AA", "AA")>>,
      <<Row(6, "AA", "AB"), EmptyRow, Row(6, "AC", "AA"), Row(6, "AB", "AA")>>,
      <<Row(0, "ZZ", "AA"), Row(20, "AA", "ZZ")>> }

\* df.dropna(how='all')
dropna_all(df) ==
    LET Keep(row) == \E f \in DOMAIN row : row[f] # Null
    IN  SelectSeq(df, Keep)

\* features_df[NUMERICAL_FEATURES + CATEGORICAL_FEATURES], after the label
\* column is dropped
select_features(df) ==
    [i \in DOMAIN df |-> [f \in NumSet \cup CatSet |-> df[i][f]]]

Column(df, f) == [i \in DOMAIN df |-> df[i][f]]

\* StandardScaler().fit: the column's mean
scaler_mean(col) == SumSeq([i \in DOMAIN col |-> col[i].v]) \div Len(col)

\* StandardScaler().fit: the column's (population) standard deviation, a
\* zero deviation replaced by 1
scaler_scale(col) ==
    LET m == scaler_mean(col)
        var == SumSeq([i \in DOMAIN col |-> (col[i].v - m) * (col[i].v - m)])
                   \div Len(col)
        sd == ISqrt(var)
    IN  IF sd = 0 THEN 1 ELSE sd

\* OneHotEncoder().fit: the sorted distinct values of the column
encoder_categories(col) ==
    LET Seen(s) == \E i \in DOMAIN col : col[i] = Str(s)
    IN  SelectSeq(StringOrder, Seen)

\* ColumnTransformer([('num', StandardScaler(), NUMERICAL_FEATURES),
\*                    ('cat', OneHotEncoder(drop='first'), CATEGORICAL_FEATURES)]).fit
fit(features_df) ==
    [mean |-> [f \in NumSet |-> scaler_mean(Column(features_df, f))],
     scale |-> [f \in NumSet |-> scaler_scale(Column(features_df, f))],
     categories |-> [f \in CatSet |-> encoder_categories(Column(features_df, f))]]

\* The preprocessor fit_preprocessor.main() pickles for a training table.
fit_preprocessor(table) == fit(select_features(dropna_all(table)))

NoPreprocessor == [mean |-> <<>>, scale |-> <<>>, categories |-> <<>>]

\* What PREPROCESSOR_PATH holds: nothing, a file being written (truncated,
\* not loadable), or a pickled preprocessor.
Absent == [state |-> "absent", pp |-> NoPreprocessor]
Partial == [state |-> "partial", pp |-> NoPreprocessor]
Fitted(pp) == [state |-> "fitted", pp |-> pp]

ArtifactStates ==
    {Absent, Partial} \cup {Fitted(fit_preprocessor(t)) : t \in TrainingTables}

\* ----------------------------------------------------- data_handler.py

\* An exception: the class of failure (by the place that raises it), the
\* message prefix, the wrapped cause and, for a scoring-service status
\* failure, the status and response text the message is formatted from.
Error(kind, msg, cause, status, body) ==
    [kind |-> kind, msg |-> msg, cause |-> cause, status |-> status, body |-> body]

NoError == Error("", "", "", 0, "")

\* A line of the standard error stream: plain text, or the JSON object
\* {"error": str(e), "fraud_bool": 0}.
TextLine(text) == [fmt |-> "text", text |-> text, error |-> NoError, fraud_bool |-> 0]
JsonErrorLine(e) == [fmt |-> "json", text |-> "", error |-> e, fraud_bool |-> 0]

\* load_preprocessor(): the preprocessor or None, and the lines it prints
\* to stderr on the way.
load_preprocessor(file) ==
    IF file.state = "absent"
    THEN [loaded |-> FALSE, pp |-> NoPreprocessor,
          printed |-> <<TextLine("Error: Preprocessor not found at PREPROCESSOR_PATH"),
                        TextLine("Run: python3 fit_preprocessor.py first")>>]
    ELSE IF file.state = "partial"
    THEN [loaded |-> FALSE, pp |-> NoPreprocessor,
          printed |-> <<TextLine("Error loading preprocessor")>>]
    ELSE [loaded |-> TRUE, pp |-> file.pp, printed |-> <<>>]

\* pd.DataFrame([data_dict]): one row, one column per key.
DataFrame(data_dict) == data_dict

\* Fault variant of ensure_features: a missing feature is filled from a key
\* outside the schema when the object has one.
ensure_features_Alias(df) ==
    [f \in DOMAIN df \cup NumSet \cup CatSet |->
        IF f \in DOMAIN df THEN df[f]
        ELSE IF DOMAIN df \cap ExtraKeys # {}
             THEN df[CHOOSE k \in DOMAIN df \cap ExtraKeys : TRUE]
             ELSE Null]

\* for feat in NUMERICAL_FEATURES + CATEGORICAL_FEATURES:
\*     if feat not in df.columns: df[feat] = None
ensure_features(df) ==
    [f \in DOMAIN df \cup NumSet \cup CatSet |->
        IF f \in DOMAIN df THEN df[f] ELSE Null]

\* df[NUMERICAL_FEATURES + CATEGORICAL_FEATURES]
select_columns(df) == [f \in SeqToSet(FeatureOrder) |-> df[f]]

\* Fault variant of fillna_numerical: the missing values are left as they
\* are.
fillna_numerical_Skipped(df) == df

\* df[feat].fillna(0) for the numerical features
fillna_numerical(df) ==
    [f \in DOMAIN df |-> IF f \in NumSet /\ df[f] = Null THEN Num(0) ELSE df[f]]

\* The float nan.
NaN == [n |-> 0, d |-> 0]

\* StandardScaler.transform of one cell: (x - mean) / scale; None is nan
\* and stays nan; a string cannot be converted to float.
scale_cell(pp, f, cell) ==
    IF cell.t = "num"
    THEN [ok |-> TRUE, block |-> <<Rat(cell.v - pp.mean[f], pp.scale[f])>>]
    ELSE IF cell.t = "null"
    THEN [ok |-> TRUE, block |-> <<NaN>>]
    ELSE [ok |-> FALSE, block |-> <<>>]

\* OneHotEncoder(drop='first').transform of one cell: one indicator per
\* fitted category but the first; a value not among the fitted categories
\* is an error (handle_unknown='error').
encode_cell(pp, f, cell) ==
    LET cats == pp.categories[f]
    IN  IF cell.t = "str" /\ cell.s \in SeqToSet(cats)
        THEN [ok |-> TRUE,
              block |-> [k \in 1..(Len(cats) - 1) |->
                            IF cats[k + 1] = cell.s THEN Rat(1, 1) ELSE Rat(0, 1)]]
        ELSE [ok |-> FALSE, block |-> <<>>]

\* preprocessor.transform(df)[0]: the numerical block then the categorical
\* blocks, each in schema order.
transform(pp, df) ==
    LET num == [i \in DOMAIN NUMERICAL_FEATURES |->
                   scale_cell(pp, NUMERICAL_FEATURES[i], df[NUMERICAL_FEATURES[i]])]
        cat == [i \in DOMAIN CATEGORICAL_FEATURES |->
                   encode_cell(pp, CATEGORICAL_FEATURES[i], df[CATEGORICAL_FEATURES[i]])]
    IN  IF \E i \in DOMAIN num : ~num[i].ok
        THEN [ok |-> FALSE, vec |-> <<>>, cause |-> "could not convert string to float"]
        ELSE IF \E i \in DOMAIN cat : ~cat[i].ok
        THEN [ok |-> FALSE, vec |-> <<>>, cause |-> "Found unknown categories"]
        ELSE [ok |-> TRUE,
              vec |-> Flatten([i \in DOMAIN num |-> num[i].block])
                        \o Flatten([i \in DOMAIN cat |-> cat[i].block]),
              cause |-> ""]

\* preprocess_data(data_dict) with PREPROCESSOR_PATH holding `file`.
preprocess_data(file, data_dict) ==
    LET l == load_preprocessor(file)
        df == fillna_numerical(select_columns(ensure_features(DataFrame(data_dict))))
        x == transform(l.pp, df)
    IN  IF ~l.loaded
        THEN [ok |-> FALSE, features |-> <<>>, printed |-> l.printed,
              error |-> Error("ConfigError",
                              "Preprocessor not loaded. Run fit_preprocessor.py first.",
                              "", 0, "")]
        ELSE IF ~x.ok
        THEN [ok |-> FALSE, features |-> <<>>, printed |-> l.printed,
              error |-> Error("TransformError", "Error transforming data: ", x.cause, 0, "")]
        ELSE [ok |-> TRUE, features |-> x.vec, printed |-> l.printed, error |-> NoError]

\* A reply of the scoring service to requests.post: a response (status
\* code, body text and the body as JSON), or no response at all.
Response(status, text, json, has_predictions, predictions) ==
    [outcome |-> "response", status_code |-> status, text |-> text, json |-> json,
     has_predictions |-> has_predictions, predictions |-> predictions]

NoResponse(outcome) ==
    [outcome |-> outcome, status_code |-> 0, text |-> "", json |-> FALSE,
     has_predictions |-> FALSE, predictions |-> <<>>]

Responses ==
    { Response(200, "{predictions: [0]}", TRUE, TRUE, <<Num(0)>>),
      Response(200, "{predictions: [1, 0]}", TRUE, TRUE, <<Num(1), Num(0)>>),
      Response(200, "{predictions: [2]}", TRUE, TRUE, <<Num(2)>>),
      Response(200, "{predictions: ['1']}", TRUE, TRUE, <<Str("1")>>),
      Response(200, "{predictions: ['abc']}", TRUE, TRUE, <<Str("abc")>>),
      Response(200, "{predictions: [null]}", TRUE, TRUE, <<Null>>),
      Response(200, "{predictions: []}", TRUE, TRUE, <<>>),
      Response(200, "{}", TRUE, FALSE, <<>>),
      Response(200, "<html>", FALSE, FALSE, <<>>),
      Response(500, "Internal Server Error", FALSE, FALSE, <<>>),
      Response(503, "{predictions: [1]}", TRUE, TRUE, <<Num(1)>>),
      NoResponse("ConnectionError"),
      NoResponse("Timeout") }

\* The decimal strings int() accepts, with their values.
IntOfString == ("0" :> 0) @@ ("1" :> 1) @@ ("2" :> 2)

\* int(x)
py_int(x) ==
    IF x.t = "num" THEN [ok |-> TRUE, value |-> x.v]
    ELSE IF x.t = "str" /\ x.s \in DOMAIN IntOfString
    THEN [ok |-> TRUE, value |-> IntOfString[x.s]]
    ELSE [ok |-> FALSE, value |-> 0]

\* The request body: {"dataframe_split": {"columns": [...], "data": [[...]]}}
\* with the columns feature_0 ... feature_{n-1} given by their numbers.
Payload(features) ==
    [columns |-> [i \in 1..Len(features) |-> i - 1], data |-> <<features>>]

ServiceError(cause, status, body) ==
    Error("ServiceError", "Error calling MLflow API: ", cause, status, body)

\* Fault variant of predict_fraud: a failed call is tried once more before
\* the error is raised.
predict_fraud_Retry(features, resp) ==
    LET posted == <<Payload(features)>>
        Raise(e) == [ok |-> FALSE, prediction |-> 0, error |-> e,
                     posted |-> posted \o posted]
    IN  IF resp.outcome # "response"
        THEN Raise(ServiceError(resp.outcome, 0, ""))
        ELSE IF resp.status_code # 200
        THEN Raise(ServiceError("MLflow API error: ", resp.status_code, resp.text))
        ELSE IF ~resp.json
        THEN Raise(ServiceError("JSONDecodeError", 0, ""))
        ELSE IF ~resp.has_predictions
        THEN Raise(ServiceError("KeyError", 0, ""))
        ELSE IF resp.predictions = <<>>
        THEN Raise(ServiceError("IndexError", 0, ""))
        ELSE IF ~py_int(resp.predictions[1]).ok
        THEN Raise(ServiceError("ValueError", 0, ""))
        ELSE [ok |-> TRUE, prediction |-> py_int(resp.predictions[1]).value,
              error |-> NoError, posted |-> posted]

\* predict_fraud(features) when the service answers `resp`: the requests it
\* posted, and the label or the error raised.
predict_fraud(features, resp) ==
    LET posted == <<Payload(features)>>
        Raise(e) == [ok |-> FALSE, prediction |-> 0, error |-> e, posted |-> posted]
    IN  IF resp.outcome # "response"
        THEN Raise(ServiceError(resp.outcome, 0, ""))
        ELSE IF resp.status_code # 200
        THEN Raise(ServiceError("MLflow API error: ", resp.status_code, resp.text))
        ELSE IF ~resp.json
        THEN Raise(ServiceError("JSONDecodeError", 0, ""))
        ELSE IF ~resp.has_predictions
        THEN Raise(ServiceError("KeyError", 0, ""))
        ELSE IF resp.predictions = <<>>
        THEN Raise(ServiceError("IndexError", 0, ""))
        ELSE IF ~py_int(resp.predictions[1]).ok
        THEN Raise(ServiceError("ValueError", 0, ""))
        ELSE [ok |-> TRUE, prediction |-> py_int(resp.predictions[1]).value,
              error |-> NoError, posted |-> posted]

\* What the caller pipes into stdin: text that is no JSON, or a JSON object.
Malformed == [wellformed |-> FALSE, object |-> <<>>]
JsonObject(obj) == [wellformed |-> TRUE, object |-> obj]

\* json.loads(input_data)
json_loads(input_data) ==
    IF input_data.wellformed
    THEN [ok |-> TRUE, value |-> input_data.object, error |-> NoError]
    ELSE [ok |-> FALSE, value |-> <<>>,
          error |-> Error("ValidationError", "Expecting value", "", 0, "")]

\* The values an input object may give a numerical field, a categorical
\* field and a key outside the schema.
NumCells == {Null, Num(0), Num(6), Str("abc")}
CatCells == {Str("AA"), Str("AB"), Str("ZZ")}
ExtraCells == {Str("abc")}

\* The objects over a set of keys, each key absent or given one of `cells`.
ObjectsOver(keys, cells) ==
    UNION {[present -> cells] : present \in SUBSET keys}

Records ==
    {n @@ c @@ x : n \in ObjectsOver(NumSet, NumCells),
                   c \in ObjectsOver(CatSet, CatCells),
                   x \in ObjectsOver(ExtraKeys, ExtraCells)}

Inputs == {Malformed} \cup {JsonObject(r) : r \in Records}

\* ------------------------------------------------------------- state

VARIABLES
    artifact,        \* the file at PREPROCESSOR_PATH
    fitter,          \* the fit step: idle, or dumping the preprocessor it fitted
    pc,              \* where main() is: Idle, Parsing, Transforming, Predicting,
                     \* Emitting, Done (exit 0), Failed (exit 1)
    input_data,      \* what sys.stdin.read() returned
    data_dict,       \* json.loads(input_data)
    features,        \* preprocess_data(data_dict)
    fraud_prediction,\* predict_fraud(features), once it has returned
    stdout,          \* lines printed to the success channel
    stderr,          \* lines printed to the failure channel
    exit_status,     \* -1 while running, then the status of sys.exit
    requests,        \* request bodies posted to MLFLOW_API_URL by this process
    response,        \* the service's replies to them
    raised,          \* the exception the except clause of main() caught
    used,            \* per preprocess_data call of the deployment, what
                     \* load_preprocessor() returned
    invocation       \* how many times the command has been started

vars == <<artifact, fitter, pc, input_data, data_dict, features, fraud_prediction,
          stdout, stderr, exit_status, requests, response, raised, used, invocation>>

process == <<pc, input_data, data_dict, features, fraud_prediction,
             stdout, stderr, exit_status, requests, response, raised>>

NoLabel == [returned |-> FALSE, value |-> 0]
Label(v) == [returned |-> TRUE, value |-> v]

Idle == [pc |-> "idle", pp |-> NoPreprocessor]

\* A fresh process, before main() runs.
Fresh ==
    /\ pc = "Idle"
    /\ input_data = Malformed
    /\ data_dict = <<>>
    /\ features = <<>>
    /\ fraud_prediction = NoLabel
    /\ stdout = <<>>
    /\ stderr = <<>>
    /\ exit_status = -1
    /\ requests = <<>>
    /\ response = <<>>
    /\ raised = NoError

Init ==
    /\ artifact \in ArtifactStates
    /\ fitter = Idle
    /\ Fresh
    /\ used = <<>>
    /\ invocation = 1

\* except Exception as e: print(json.dumps({"error": str(e), "fraud_bool": 0}),
\* file=sys.stderr); sys.exit(1), after `printed` went to stderr.
Except(e, printed) ==
    /\ raised' = e
    /\ stderr' = stderr \o printed \o <<JsonErrorLine(e)>>
    /\ exit_status' = 1
    /\ pc' = "Failed"

\* input_data = sys.stdin.read()
ReadInput ==
    /\ pc = "Idle"
    /\ \E text \in Inputs : input_data' = text
    /\ pc' = "Parsing"
    /\ UNCHANGED <<artifact, fitter, data_dict, features, fraud_prediction, stdout,
                   stderr, exit_status, requests, response, raised, used, invocation>>

\* data_dict = json.loads(input_data)
Parse ==
    /\ pc = "Parsing"
    /\ LET r == json_loads(input_data)
       IN  IF r.ok
           THEN /\ data_dict' = r.value
                /\ pc' = "Transforming"
                /\ UNCHANGED <<stderr, exit_status, raised>>
           ELSE /\ Except(r.error, <<>>)
                /\ UNCHANGED data_dict
    /\ UNCHANGED <<artifact, fitter, input_data, features, fraud_prediction, stdout,
                   requests, response, used, invocation>>

\* Fault variant of Transform: an error of preprocess_data is swallowed and
\* main() goes on with an empty vector.
Transform_Continue ==
    /\ pc = "Transforming"
    /\ LET r == preprocess_data(artifact, data_dict)
       IN  /\ used' = Append(used, load_preprocessor(artifact).pp)
           /\ features' = r.features
           /\ stderr' = stderr \o r.printed
           /\ pc' = "Predicting"
    /\ UNCHANGED <<artifact, fitter, input_data, data_dict, fraud_prediction, stdout,
                   exit_status, raised, requests, response, invocation>>

\* features = preprocess_data(data_dict)
Transform ==
    /\ pc = "Transforming"
    /\ LET r == preprocess_data(artifact, data_dict)
       IN  /\ used' = Append(used, load_preprocessor(artifact).pp)
           /\ IF r.ok
              THEN /\ features' = r.features
                   /\ stderr' = stderr \o r.printed
                   /\ pc' = "Predicting"
                   /\ UNCHANGED <<exit_status, raised>>
              ELSE /\ Except(r.error, r.printed)
                   /\ UNCHANGED features
    /\ UNCHANGED <<artifact, fitter, input_data, data_dict, fraud_prediction, stdout,
                   requests, response, invocation>>

\* fraud_prediction = predict_fraud(features)
Predict ==
    /\ pc = "Predicting"
    /\ \E resp \in Responses :
          LET r == predict_fraud(features, resp)
          IN  /\ requests' = requests \o r.posted
              /\ response' = Append(response, resp)
              /\ IF r.ok
                 THEN /\ fraud_prediction' = Label(r.prediction)
                      /\ pc' = "Emitting"
                      /\ UNCHANGED <<stderr, exit_status, raised>>
                 ELSE /\ Except(r.error, <<>>)
                      /\ UNCHANGED fraud_prediction
    /\ UNCHANGED <<artifact, fitter, input_data, data_dict, features, stdout,
                   used, invocation>>

\* print(json.dumps({"fraud_bool": fraud_prediction, "n_features": len(features)}))
\* sys.exit(0)
Emit ==
    /\ pc = "Emitting"
    /\ stdout' = Append(stdout, [fraud_bool |-> fraud_prediction.value,
                                 n_features |-> Len(features)])
    /\ exit_status' = 0
    /\ pc' = "Done"
    /\ UNCHANGED <<artifact, fitter, input_data, data_dict, features, fraud_prediction,
                   stderr, requests, response, raised, used, invocation>>

\* main() of data_handler.py, one run of the command.
Next == ReadInput \/ Parse \/ Transform \/ Predict \/ Emit

Spec == Init /\ [][Next]_vars

\* ------------------------------------------------------- a deployment

\* fit_preprocessor.main() up to joblib.dump opening preprocessor.pkl for
\* writing: the table is read and fitted, the file is truncated.
FitOpen ==
    /\ fitter.pc = "idle"
    /\ \E table \in TrainingTables :
          fitter' = [pc |-> "dumping", pp |-> fit_preprocessor(table)]
    /\ artifact' = Partial
    /\ UNCHANGED <<process, used, invocation>>

\* joblib.dump(preprocessor, 'preprocessor.pkl') completes.
FitDump ==
    /\ fitter.pc = "dumping"
    /\ artifact' = Fitted(fitter.pp)
    /\ fitter' = Idle
    /\ UNCHANGED <<process, used, invocation>>

\* The command is started again, for the next record.
Invoke ==
    /\ pc \in {"Done", "Failed"}
    /\ invocation < MaxInvocations
    /\ invocation' = invocation + 1
    /\ pc' = "Idle"
    /\ input_data' = Malformed
    /\ data_dict' = <<>>
    /\ features' = <<>>
    /\ fraud_prediction' = NoLabel
    /\ stdout' = <<>>
    /\ stderr' = <<>>
    /\ exit_status' = -1
    /\ requests' = <<>>
    /\ response' = <<>>
    /\ raised' = NoError
    /\ UNCHANGED <<artifact, fitter, used>>

\* The command run record after record while the fit step may run again.
NextDeploy ==
    ReadInput \/ Parse \/ Transform \/ Predict \/ Emit \/ Invoke \/ FitOpen \/ FitDump

SpecDeploy == Init /\ [][NextDeploy]_vars

\* ------------------------------------------------------------- claims

\* L = |numeric| + sum over the categorical features of (|categories| - 1).
VectorLength(pp) ==
    Len(NUMERICAL_FEATURES)
    + SumSeq([i \in DOMAIN CATEGORICAL_FEATURES |->
                 Len(pp.categories[CATEGORICAL_FEATURES[i]]) - 1])

Terminated == pc \in {"Done", "Failed"}

\* preprocess_data has been called and has returned or raised.
Transformed == pc \in {"Predicting", "Emitting", "Done"} \/ (pc = "Failed" /\ used # <<>>)

\* preprocess_data returned a vector.
TransformReturned ==
    pc \in {"Predicting", "Emitting", "Done"}
    \/ (pc = "Failed" /\ raised.kind = "ServiceError")

\* C1: every invocation writes exactly one line in total, a JSON line, on
\* stdout (with exit status 0) or on stderr (with a non-zero exit status),
\* never on both and never more than one line on the channel it uses.
C1_ExactlyOneLine ==
    /\ Len(stdout) + Len(stderr) <= 1
    /\ Terminated =>
          \/ /\ Len(stdout) = 1 /\ stderr = <<>> /\ exit_status = 0
          \/ /\ stdout = <<>> /\ Len(stderr) = 1 /\ stderr[1].fmt = "json"
             /\ exit_status # 0

\* C2: with the preprocessor artifact absent or unreadable the invocation
\* fails with the ConfigError that names the fit step, whatever stdin
\* holds, and no record has been parsed when it does.
C2_ConfigErrorAtStartup ==
    (artifact.state # "fitted" /\ Terminated) =>
        /\ pc = "Failed"
        /\ exit_status = 1
        /\ raised.kind = "ConfigError"
        /\ raised.msg = "Preprocessor not loaded. Run fit_preprocessor.py first."
        /\ data_dict = <<>>

\* C3: every Transform call of a deployment uses the identical
\* preprocessor: any two calls that got one from load_preprocessor() got
\* the same fitted parameters (and so the same L), also while a re-fit
\* replaces the artifact on disk.
C3_SamePreprocessor ==
    \A i, j \in DOMAIN used :
        (used[i] # NoPreprocessor /\ used[j] # NoPreprocessor) =>
            /\ used[i] = used[j]
            /\ VectorLength(used[i]) = VectorLength(used[j])

\* A Record: every value it gives a numerical field is a number or null,
\* every value it gives a categorical field is a string.
ValidRecord(r) ==
    /\ \A f \in NumSet \cap DOMAIN r : r[f].t \in {"num", "null"}
    /\ \A f \in CatSet \cap DOMAIN r : r[f].t = "str"

\* The standardized numerical block of record r under pp, in schema order.
NumericBlock(pp, r) ==
    [i \in DOMAIN NUMERICAL_FEATURES |->
        LET f == NUMERICAL_FEATURES[i]
            x == IF f \in DOMAIN r /\ r[f].t = "num" THEN r[f].v ELSE 0
        IN  Rat(x - pp.mean[f], pp.scale[f])]

\* C4: for any valid Record (any subset of the schema fields, any extra
\* keys) Transform returns a vector of length L, the standardized numerical
\* block first, then indicator entries.
C4_VectorLength ==
    (Transformed /\ artifact.state = "fitted" /\ ValidRecord(data_dict)) =>
        /\ TransformReturned
        /\ Len(features) = VectorLength(artifact.pp)
        /\ SubSeq(features, 1, Len(NUMERICAL_FEATURES)) = NumericBlock(artifact.pp, data_dict)
        /\ \A k \in (Len(NUMERICAL_FEATURES) + 1)..Len(features) :
              features[k] \in {Rat(0, 1), Rat(1, 1)}

\* C5: a success output carries fraud_bool in {0, 1} and n_features = L.
C5_LabelInRange ==
    \A i \in DOMAIN stdout :
        /\ stdout[i].fraud_bool \in {0, 1}
        /\ stdout[i].n_features = VectorLength(artifact.pp)

\* A reply predict cannot take a label from.
FailureMode(resp) ==
    \/ resp.outcome # "response"
    \/ resp.status_code # 200
    \/ ~resp.json
    \/ ~resp.has_predictions
    \/ resp.predictions = <<>>
    \/ resp.predictions[1].t = "null"
    \/ (resp.predictions[1].t = "str" /\ resp.predictions[1].s \notin {"0", "1", "2"})

\* C6: predict posts exactly one request per call and never retries; on a
\* failure mode it raises ServiceError after that one request (with the
\* status and the body for a non-success status), and main() then writes
\* the failure output with fraud_bool 0, exits 1 and writes no success
\* output.
C6_OneRequestThenServiceError ==
    /\ Len(requests) = Len(response)
    /\ Len(requests) <= 1
    /\ \A i \in DOMAIN response :
          /\ requests[i] = Payload(features)
          /\ FailureMode(response[i]) =>
                /\ pc = "Failed"
                /\ raised.kind = "ServiceError"
                /\ stderr = <<JsonErrorLine(raised)>>
                /\ stderr[1].fraud_bool = 0
                /\ exit_status = 1
                /\ stdout = <<>>
                /\ fraud_prediction = NoLabel
          /\ (response[i].outcome = "response" /\ response[i].status_code # 200) =>
                /\ raised.status = response[i].status_code
                /\ raised.body = response[i].text

C6_Witness ==
    /\ pc = "Failed"
    /\ Len(requests) = 1
    /\ response # <<>>
    /\ response[1].status_code = 500
    /\ raised.body = "Internal Server Error"

\* C7: a Record whose value for a categorical feature was never seen in
\* fitting (every other field given and known) is encoded by the fallback
\* encoding into a vector of length L; Transform does not fail on it.
C7_UnseenCategoryEncoded ==
    (/\ Transformed
     /\ artifact.state = "fitted"
     /\ ValidRecord(data_dict)
     /\ CatSet \subseteq DOMAIN data_dict
     /\ \E f \in CatSet : data_dict[f].s \notin SeqToSet(artifact.pp.categories[f]))
    => /\ TransformReturned
       /\ Len(features) = VectorLength(artifact.pp)

\* What main() made of preprocess_data's outcome `r`: its vector was kept,
\* or its exception was caught and reported.
SameOutcome(r) ==
    IF r.ok
    THEN TransformReturned /\ features = r.features
    ELSE pc = "Failed" /\ raised = r.error /\ features = <<>>

\* C8: a Record without a numerical field f (absent or null) is transformed
\* as the Record with f set to 0 is: the same numerical block and the same
\* whole vector.
C8_MissingNumericIsZero ==
    Transformed =>
        \A f \in NumSet :
            (f \notin DOMAIN data_dict \/ data_dict[f] = Null) =>
                SameOutcome(preprocess_data(artifact, (f :> Num(0)) @@ data_dict))

C8_Witness ==
    /\ pc = "Done"
    /\ "income" \notin DOMAIN data_dict
    /\ NUMERICAL_FEATURES[NumNumeric] \in DOMAIN data_dict
    /\ data_dict[NUMERICAL_FEATURES[NumNumeric]] = Null
    /\ features[1] = Rat(0 - artifact.pp.mean["income"], artifact.pp.scale["income"])

\* The Records that agree with r on every schema field.
SchemaTwins(r) ==
    LET schema == [f \in DOMAIN r \cap (NumSet \cup CatSet) |-> r[f]]
    IN  {schema @@ x : x \in ObjectsOver(ExtraKeys, ExtraCells)}

\* C9: keys outside the schema are ignored: Records that differ only in
\* them get the same vector, the same request and the same output.
C9_ExtraKeysIgnored ==
    Transformed =>
        \A twin \in SchemaTwins(data_dict) :
            LET r == preprocess_data(artifact, twin)
            IN  /\ SameOutcome(r)
                /\ \A i \in DOMAIN requests : requests[i] = Payload(r.features)
                /\ \A i \in DOMAIN stdout : stdout[i].n_features = Len(r.features)

C9_Witness ==
    /\ pc = "Done"
    /\ "note" \in DOMAIN data_dict
    /\ "income" \notin DOMAIN data_dict
    /\ Len(requests) = 1

\* The stages in their order; Done and Failed are terminal.
StageRank ==
    ("Idle" :> 0) @@ ("Parsing" :> 1) @@ ("Transforming" :> 2) @@ ("Predicting" :> 3)
    @@ ("Emitting" :> 4) @@ ("Done" :> 5) @@ ("Failed" :> 5)

\* C10: main() moves only forward, one stage at a time, or to Failed; the
\* service gets a request only after json.loads and preprocess_data have
\* both succeeded; the success line is written only once predict_fraud has
\* returned a label; nothing is on stdout when the run fails; nothing
\* happens after Done or Failed.
C10_ForwardOnly ==
    [][/\ pc' # pc =>
            \/ pc' # "Failed" /\ StageRank[pc'] = StageRank[pc] + 1
            \/ pc' = "Failed" /\ pc \in {"Parsing", "Transforming", "Predicting"}
       /\ pc' = "Transforming" => json_loads(input_data).ok
       /\ pc' = "Predicting" => preprocess_data(artifact, data_dict).ok
       /\ requests' # requests =>
            /\ pc = "Predicting"
            /\ json_loads(input_data).ok
            /\ preprocess_data(artifact, data_dict).ok
            /\ features = preprocess_data(artifact, data_dict).features
       /\ stdout' # stdout =>
            /\ pc = "Emitting" /\ pc' = "Done"
            /\ fraud_prediction.returned
            /\ Len(requests) = 1
       /\ pc' = "Failed" => stdout' = <<>> /\ ~fraud_prediction'.returned
       /\ Terminated => UNCHANGED process
      ]_vars

C10_Witness ==
    /\ pc = "Done"
    /\ exit_status = 0
    /\ Len(stdout) = 1
    /\ fraud_prediction.returned
    /\ response # <<>>
    /\ response[1].status_code = 200

====
